---- MODULE Spec2Model ----
(***************************************************************************)
(* Model of the indexing / search / answer core of mini-rag.               *)
(*                                                                         *)
(*   routes/nlp.py                    index_project (the page loop)        *)
(*   controllers/NLPController.py     index_into_vector_db, search         *)
(*   controllers/NLPAsyncController.py search, asnwer_rag_question         *)
(*   stores/llm/providers/*.py        embed_batch, embed_text,             *)
(*                                    generate_text, construct_prompt      *)
(*   stores/vector_db/providers/QDrantProvider.py                          *)
(*                                    create_collection, insert_many,      *)
(*                                    search_by_vector                     *)
(*                                                                         *)
(* A chunk is identified by its position 1..nchunks in the project; its    *)
(* text is that number.  A vector is the number of the text it embeds (a   *)
(* consistent fake embedding), so a point is [id, text].  The batch sizes  *)
(* of the source (96/100 texts per embedding call, 50 points per upload)   *)
(* are scaled down so that a page splits into several sub-batches.         *)
(***************************************************************************)
EXTENDS Integers, Sequences, FiniteSets, TLC

\* ---------------------------------------------------------------- bounds
MaxChunks == 4       \* chunks of the project: 0..MaxChunks
PageSize == 3        \* page size of the chunk store's paginator
MaxRuns == 2         \* index requests served in one behaviour
MaxLimit == 2        \* limit of a search / answer request: 1..MaxLimit
MaxIdLen == 2        \* characters of a project id: 0..MaxIdLen
MaxOther == 1        \* index requests served next to the one followed
MaxAsyncPages == 2   \* pages indexed through the async controller
TemplateThreads == 2 \* worker threads inside TemplateParser.get at once

\* ------------------------------------------------------ program constants
max_retries == 3         \* CohereProvider.embed_batch / OpenAIProvider.embed_batch
embed_batch_size == 2    \* batch_size of embed_batch (96 / 100 in the source)
insert_batch_size == 2   \* batch_size of insert_many (50 in the source)
\* process_text: the length kept of a text, counted in renderings and
\* separators of a prompt (1000 characters in the source)
default_input_max_tokens == 4

\* texts of one index_into_vector_db call on the store: a full sub-batch
\* and one text more
MaxTexts == insert_batch_size + 1

StaleText == MaxChunks + 1        \* payload text of a point left by an earlier index
StaleId == MaxChunks + PageSize   \* an id no run over <= MaxChunks chunks assigns

Backends == {"openai", "cohere"}

VARIABLES
    \* process-wide configuration (main.py lifespan)
    embedding_backend, generation_backend,
    \* chunk store: the project owns chunks 1..nchunks
    nchunks,
    \* vector store: the project's collection
    coll_exists, points,
    \* index_project: locals of the request in flight
    pc, do_reset, page_no, idx, inserted_items_count,
    page_chunks, chunks_ids, is_inserted, response,
    \* embed_batch: locals
    emb_i, attempt, all_embeddings, vectors, last_error,
    \* insert_many: locals
    ins_i, successful_batches, insert_result,
    \* history of the run in flight
    runs, fetched, assigned, embed_batch_calls, insert_calls, written,
    coll_at_page, embed_failed_page, insert_false_page,
    \* the kind of the last run that has answered (empty before the first)
    completed,
    \* search / answer: the last call and its outcome
    last_call,
    \* a second index request for the same project
    other,
    \* the vector store with the collections of every project, and the
    \* last call made on it, on the template parser or on a factory
    vdb, call

idxvars == <<pc, do_reset, page_no, idx, inserted_items_count,
             page_chunks, chunks_ids, is_inserted, response>>
embvars == <<emb_i, attempt, all_embeddings, vectors, last_error>>
insvars == <<ins_i, successful_batches, insert_result>>
histvars == <<runs, completed, fetched, assigned, embed_batch_calls, insert_calls, written,
              coll_at_page, embed_failed_page, insert_false_page>>
cfgvars == <<embedding_backend, generation_backend, nchunks>>
storevars == <<coll_exists, points>>
qvars == <<last_call>>
othervars == <<other>>
libvars == <<vdb, call>>
vars == <<cfgvars, storevars, idxvars, embvars, insvars, histvars, qvars,
          othervars, libvars>>

\* ------------------------------------------------------------- helpers
Min(a, b) == IF a < b THEN a ELSE b

Range(s) == {s[i] : i \in DOMAIN s}

\* s[from+1 .. to] in Python's s[from:to], clipped at the end of s
Slice(s, from, to) == SubSeq(s, from + 1, Min(to, Len(s)))

\* a Python value that may be None
None == [none |-> TRUE, list |-> <<>>]
Some(l) == [none |-> FALSE, list |-> l]

\* Python truthiness of an optional list: None and [] are both falsy
Falsy(v) == v.none \/ Len(v.list) = 0

\* the fake embedding of one text
Embed(t) == t

\* ----------------------------------------------------------- chunk store
\* The texts of page p (1-based) of the project's chunks; the empty
\* sequence signals the end of the data.
GetChunksPage(p) ==
    LET first == (p - 1) * PageSize
        n == IF nchunks > first THEN Min(PageSize, nchunks - first) ELSE 0
    IN  [k \in 1..n |-> first + k]

\* ---------------------------------------------------------- vector store
\* QDrantProvider.delete_collection: drops the collection when it exists.
DeleteCollection(st) ==
    IF st.exists THEN [exists |-> FALSE, points |-> {}] ELSE st

\* a provider that drops the collection whether or not do_reset is set
CreateCollection_recreate(st, reset) == [exists |-> TRUE, points |-> {}]

\* QDrantProvider.create_collection: with do_reset the collection is deleted
\* first; it is then created, empty, unless it (still) exists.
CreateCollection(st, reset) ==
    LET s1 == IF reset THEN DeleteCollection(st) ELSE st
    IN  IF ~s1.exists THEN [exists |-> TRUE, points |-> {}] ELSE s1

\* the records insert_many builds for one sub-batch: zip(texts, vectors, ids)
BatchRecords(b_vectors, b_ids) ==
    {[id |-> b_ids[k], text |-> b_vectors[k]] :
        k \in 1..Min(Len(b_vectors), Len(b_ids))}

\* a store that adds the uploaded points next to the stored ones
Upsert_add(ps, recs) == ps \cup recs

\* upload_points: a point with the id of a stored point replaces it
Upsert(ps, recs) ==
    {p \in ps : \A r \in recs : r.id # p.id} \cup recs

\* an insert_many that wants every sub-batch uploaded
InsertManyResult_all(ok_batches, total_batches) == ok_batches = total_batches

\* insert_many's result once every sub-batch was tried
InsertManyResult(ok_batches, total_batches) == ok_batches # 0

\* ------------------------------------------------------- index_project
\* chunks_ids with the running index forgotten: every page numbered from 0
ChunkIds_fromZero(i, n) == [k \in 1..n |-> k - 1]

\* routes/nlp.py: chunks_ids = list(range(idx, idx + len(page_chunks)))
ChunkIds(i, n) == [k \in 1..n |-> i + k - 1]

\* routes/nlp.py: if len(page_chunks): page_no += 1
NextPageNo(p, page) == IF Len(page) # 0 THEN p + 1 ELSE p

\* the loop without its exit test
LoopEnds_never(page) == FALSE

\* routes/nlp.py: if not page_chunks or len(page_chunks) == 0: break
LoopEnds(page) == Len(page) = 0

\* routes/nlp.py: if not is_inserted: return the error response
RouteAborts(inserted) == ~inserted

\* the controller without its test of the embedding result
EmbeddingMissing_never(v) == FALSE

\* NLPController.index_into_vector_db: if not vectors: return False
EmbeddingMissing(v) == Falsy(v)

\* NLPController.index_into_vector_db returns True once insert_many was
\* called; the result of insert_many is not looked at.
ControllerResult(ins_result) == TRUE

\* embed_batch returning what it has collected when a sub-batch fails
EmbedFailure_partial(all) == Some(all)

\* embed_batch: what a failed sub-batch makes the call return
EmbedFailure(all) == None

\* an embed_batch that always has attempts left
RetryAllowed_always(att) == TRUE

\* embed_batch: an exception is retried when it is a rate limit and
\* attempts are left
RetryAllowed(att) == att < max_retries - 1

\* what the vendor's embedding call can raise: "429" / "rate_limit" in the
\* message, or anything else
ErrorKinds == {"rate_limit", "error"}

\* embed_batch: the except branch sleeps and tries again
Retries(kind, att) == kind = "rate_limit" /\ RetryAllowed(att)

Store == [exists |-> coll_exists, points |-> points]

InitStores ==
    { [exists |-> FALSE, points |-> {}],
      [exists |-> TRUE, points |-> {}],
      [exists |-> TRUE, points |-> {[id |-> 0, text |-> StaleText]}],
      [exists |-> TRUE, points |-> {[id |-> StaleId, text |-> StaleText]}] }

\* no search / answer request is being answered
NoCall == [op |-> "none", query |-> 0, embedding |-> "none",
           result |-> "none", docs |-> <<>>, searched |-> FALSE,
           generated |-> 0, answer |-> "None", full_prompt |-> None,
           chat_history |-> None, store_failed |-> FALSE,
           message |-> None]

\* ------------------------------------------------- collection naming policy
\* A string is the sequence of its characters; "Collection_" is one piece
\* (it has no whitespace in it).
Chars == {"a", " "}

IsSpace(c) == c = " "

\* str.isalnum of one character
IsAlnum(c) == c = "a"

\* the project ids a route may be called with
RawIds == UNION {[1..n -> Chars] : n \in 0..MaxIdLen}

RECURSIVE LStrip(_)
LStrip(s) == IF Len(s) > 0 /\ IsSpace(Head(s)) THEN LStrip(Tail(s)) ELSE s

RECURSIVE RStrip(_)
RStrip(s) ==
    IF Len(s) > 0 /\ IsSpace(s[Len(s)])
    THEN RStrip(SubSeq(s, 1, Len(s) - 1))
    ELSE s

\* str.strip(): leading and trailing whitespace removed
Strip(s) == RStrip(LStrip(s))

\* a validator that lets every id through
ProjectIdValid_any(value) == TRUE

\* ProjectSchema: Field(min_length=1) and project_id_must_not_be_empty
ProjectIdValid(value) ==
    /\ Len(value) >= 1
    /\ Len(value) > 0 /\ Len(Strip(value)) > 0
    /\ \A i \in 1..Len(value) : IsAlnum(value[i])

\* a name built from the first character of the id only
create_collection_name_short(project_id) ==
    Strip(<<"Collection_">> \o
              (IF Len(project_id) > 1 THEN <<Head(project_id)>> ELSE project_id))

\* NLPController.create_collection_name: f"Collection_{project_id}".strip()
create_collection_name(project_id) ==
    Strip(<<"Collection_">> \o project_id)

\* the names a collection of the vector store can have
AllNames == {create_collection_name(P) : P \in RawIds}

\* a vector store without collections
NoCollections == [n \in AllNames |-> [exists |-> FALSE, points |-> {}]]

\* no call on the vector store, the template parser or a factory yet
NoLibCall == [op |-> "none"]

\* no second index request
NoOther == [pc |-> "idle", do_reset |-> FALSE, page_no |-> 1, idx |-> 0,
            served |-> 0]

Init ==
    /\ embedding_backend \in Backends
    /\ generation_backend \in Backends
    /\ nchunks \in 0..MaxChunks
    /\ \E st \in InitStores : coll_exists = st.exists /\ points = st.points
    /\ pc = "idle" /\ do_reset = FALSE /\ page_no = 1 /\ idx = 0
    /\ inserted_items_count = 0 /\ page_chunks = <<>> /\ chunks_ids = <<>>
    /\ is_inserted = FALSE /\ response = "none"
    /\ emb_i = 0 /\ attempt = 0 /\ all_embeddings = <<>> /\ vectors = None
    /\ last_error = "none"
    /\ ins_i = 0 /\ successful_batches = 0 /\ insert_result = FALSE
    /\ runs = 0 /\ fetched = <<>> /\ assigned = <<>> /\ embed_batch_calls = 0
    /\ insert_calls = 0 /\ written = 0
    /\ coll_at_page = [exists |-> FALSE, points |-> {}]
    /\ embed_failed_page = 0 /\ insert_false_page = 0
    /\ last_call = NoCall
    /\ completed = <<>>
    /\ other = NoOther
    /\ vdb = NoCollections
    /\ call = NoLibCall

\* routes/nlp.py 57-60: a request enters the page loop
StartIndex(reset) ==
    /\ pc = "idle" /\ last_call.op = "none" /\ runs < MaxRuns
    /\ runs' = runs + 1
    /\ UNCHANGED completed
    /\ do_reset' = reset
    /\ page_no' = 1 /\ inserted_items_count' = 0 /\ idx' = 0
    /\ page_chunks' = <<>> /\ chunks_ids' = <<>> /\ is_inserted' = FALSE
    /\ response' = "none" /\ pc' = "fetch"
    /\ fetched' = <<>> /\ assigned' = <<>> /\ embed_batch_calls' = 0
    /\ insert_calls' = 0 /\ written' = 0
    /\ coll_at_page' = Store
    /\ embed_failed_page' = 0 /\ insert_false_page' = 0
    /\ emb_i' = 0 /\ attempt' = 0 /\ all_embeddings' = <<>> /\ vectors' = None
    /\ last_error' = "none"
    /\ ins_i' = 0 /\ successful_batches' = 0 /\ insert_result' = FALSE
    /\ UNCHANGED <<cfgvars, othervars, libvars, storevars, qvars>>

\* routes/nlp.py 63-80, 100-105: fetch a page; leave the loop with the
\* success response when it is empty, else assign the ids of its chunks
FetchPage ==
    /\ pc = "fetch"
    /\ LET page == GetChunksPage(page_no) IN
       /\ page_chunks' = page
       /\ fetched' = Append(fetched, page_no)
       /\ page_no' = NextPageNo(page_no, page)
       /\ coll_at_page' = Store
       /\ IF LoopEnds(page)
          THEN /\ pc' = "done" /\ response' = "success"
               /\ UNCHANGED <<chunks_ids, idx, assigned, embvars,
                              embed_batch_calls>>
          ELSE /\ chunks_ids' = ChunkIds(idx, Len(page))
               /\ idx' = idx + Len(page)
               /\ assigned' = Append(assigned, chunks_ids')
               /\ pc' = "embed"
               /\ emb_i' = 0 /\ attempt' = 0 /\ all_embeddings' = <<>>
               /\ last_error' = "none"
               /\ vectors' = None
               /\ embed_batch_calls' = embed_batch_calls + 1
               /\ UNCHANGED response
    /\ UNCHANGED <<cfgvars, othervars, libvars, storevars, do_reset, inserted_items_count,
                   is_inserted, insvars, runs, completed, insert_calls,
                   written, embed_failed_page, insert_false_page, qvars>>

\* embed_batch: the sub-batch texts[i : i + batch_size]
SubBatch == Slice(page_chunks, emb_i, emb_i + embed_batch_size)

EmbedFrame ==
    UNCHANGED <<cfgvars, othervars, libvars, storevars, do_reset, page_no, idx,
                inserted_items_count, page_chunks, chunks_ids, is_inserted,
                response, insvars, runs, completed, fetched, assigned,
                embed_batch_calls, insert_calls,
                written, coll_at_page, insert_false_page, qvars>>

\* embed_batch: the vendor call of the current sub-batch succeeds
EmbedOk ==
    /\ pc = "embed" /\ emb_i < Len(page_chunks)
    /\ all_embeddings' =
          all_embeddings \o [k \in 1..Len(SubBatch) |-> Embed(SubBatch[k])]
    /\ emb_i' = emb_i + embed_batch_size
    /\ attempt' = 0
    /\ last_error' = "none"
    /\ UNCHANGED <<pc, vectors>>
    /\ UNCHANGED embed_failed_page
    /\ EmbedFrame

\* embed_batch: the vendor call hits the rate limit and is tried again
EmbedRetry ==
    /\ pc = "embed" /\ emb_i < Len(page_chunks)
    /\ Retries("rate_limit", attempt)
    /\ attempt' = attempt + 1
    /\ last_error' = "rate_limit"
    /\ UNCHANGED <<pc, vectors, all_embeddings, emb_i>>
    /\ UNCHANGED embed_failed_page
    /\ EmbedFrame

\* embed_batch: the vendor call fails for good (another error, or the
\* rate limit on the last attempt): the call returns at once
EmbedFail ==
    /\ pc = "embed" /\ emb_i < Len(page_chunks)
    /\ \E kind \in ErrorKinds :
          ~Retries(kind, attempt) /\ last_error' = kind
    /\ vectors' = EmbedFailure(all_embeddings)
    /\ embed_failed_page' = Len(fetched)
    /\ pc' = "embedded"
    /\ UNCHANGED <<all_embeddings, emb_i, attempt>>
    /\ EmbedFrame

\* embed_batch: every sub-batch is embedded: return all_embeddings
EmbedReturn ==
    /\ pc = "embed" /\ emb_i >= Len(page_chunks)
    /\ vectors' = Some(all_embeddings)
    /\ pc' = "embedded"
    /\ UNCHANGED <<all_embeddings, emb_i, attempt, last_error>>
    /\ UNCHANGED embed_failed_page
    /\ EmbedFrame

\* NLPController.index_into_vector_db 64-66: without vectors the page is
\* given up before the vector store is touched
AfterEmbed ==
    /\ pc = "embedded"
    /\ IF EmbeddingMissing(vectors)
       THEN /\ is_inserted' = FALSE
            /\ pc' = "check"
       ELSE /\ pc' = "create"
            /\ UNCHANGED is_inserted
    /\ UNCHANGED <<cfgvars, othervars, libvars, storevars, do_reset, page_no, idx,
                   inserted_items_count, page_chunks, chunks_ids, response,
                   embvars, insvars, runs, completed, fetched, assigned,
                   embed_batch_calls,
                   insert_calls, written, coll_at_page, embed_failed_page,
                   insert_false_page, qvars>>

IndexFrame ==
    UNCHANGED <<cfgvars, othervars, libvars, do_reset, page_no, idx, inserted_items_count,
                page_chunks, chunks_ids, response, embvars, runs, completed,
                fetched,
                assigned, embed_batch_calls, coll_at_page, embed_failed_page, qvars>>

\* NLPController.index_into_vector_db 69-73: create_collection with the
\* request's do_reset, then insert_many starts on the page
CreateStep ==
    /\ pc = "create"
    /\ LET st == CreateCollection(Store, do_reset) IN
       /\ coll_exists' = st.exists
       /\ points' = st.points
    /\ pc' = "insert"
    /\ ins_i' = 0 /\ successful_batches' = 0
    /\ insert_calls' = insert_calls + 1
    /\ UNCHANGED <<is_inserted, insert_result, written, insert_false_page>>
    /\ IndexFrame

\* create_collection 104-106: the store's create call raises; the error is
\* logged, the collection (deleted when do_reset) does not exist
CreateFails ==
    /\ pc = "create"
    /\ LET s1 == IF do_reset THEN DeleteCollection(Store) ELSE Store IN
       /\ ~s1.exists
       /\ coll_exists' = FALSE
       /\ points' = {}
    /\ pc' = "insert"
    /\ ins_i' = 0 /\ successful_batches' = 0
    /\ insert_calls' = insert_calls + 1
    /\ UNCHANGED <<is_inserted, insert_result, written, insert_false_page>>
    /\ IndexFrame

\* insert_many 171-187: the collection exists and the lists are aligned
InsertAccepts ==
    /\ coll_exists
    /\ Len(page_chunks) = Len(vectors.list)
    /\ Len(page_chunks) = Len(chunks_ids)

\* insert_many: the records of the sub-batch [i : i + batch_size]
UploadRecords ==
    BatchRecords(Slice(vectors.list, ins_i, ins_i + insert_batch_size),
                 Slice(chunks_ids, ins_i, ins_i + insert_batch_size))

\* insert_many 215-221: the upload of the current sub-batch succeeds
UploadOk ==
    /\ pc = "insert" /\ InsertAccepts /\ ins_i < Len(page_chunks)
    /\ points' = Upsert(points, UploadRecords)
    /\ written' = written + Cardinality(UploadRecords)
    /\ successful_batches' = successful_batches + 1
    /\ ins_i' = ins_i + insert_batch_size
    /\ UNCHANGED <<coll_exists, pc, is_inserted, insert_result, insert_calls,
                   insert_false_page>>
    /\ IndexFrame

\* insert_many 222-224: the upload raises; it is logged and the loop goes on
UploadFail ==
    /\ pc = "insert" /\ InsertAccepts /\ ins_i < Len(page_chunks)
    /\ ins_i' = ins_i + insert_batch_size
    /\ UNCHANGED <<storevars, pc, is_inserted, insert_result, written,
                   successful_batches, insert_calls, insert_false_page>>
    /\ IndexFrame

\* insert_many returns (rejected at entry, or every sub-batch was tried) and
\* index_into_vector_db returns to the route
InsertReturn ==
    /\ pc = "insert"
    /\ ~InsertAccepts \/ ins_i >= Len(page_chunks)
    /\ LET total_batches ==
              (Len(page_chunks) + insert_batch_size - 1) \div insert_batch_size
           res == IF InsertAccepts
                  THEN InsertManyResult(successful_batches, total_batches)
                  ELSE FALSE
       IN /\ insert_result' = res
          /\ is_inserted' = ControllerResult(res)
          /\ insert_false_page' = IF res THEN insert_false_page ELSE Len(fetched)
    /\ pc' = "check"
    /\ UNCHANGED <<storevars, ins_i, successful_batches, written, insert_calls>>
    /\ IndexFrame

\* routes/nlp.py 90-98: a page that was not inserted ends the request with
\* the error response; else the page is counted and the loop continues
RouteCheck ==
    /\ pc = "check"
    /\ IF RouteAborts(is_inserted)
       THEN /\ response' = "error" /\ pc' = "done"
            /\ UNCHANGED inserted_items_count
       ELSE /\ inserted_items_count' = inserted_items_count + Len(page_chunks)
            /\ pc' = "fetch"
            /\ UNCHANGED response
    /\ UNCHANGED <<cfgvars, othervars, libvars, storevars, do_reset, page_no, idx, page_chunks,
                   chunks_ids, is_inserted, embvars, insvars, histvars, qvars>>

\* ------------------------------------------------------ search / answer
VendorOutcomes == {"ok", "empty", "error"}

\* embed_text: "vector", "None" or "raise".  OpenAIProvider.embed_text makes
\* the vendor call outside any try block; CohereProvider.embed_text catches
\* every exception and returns None.
EmbedText(backend, outcome) ==
    CASE outcome = "ok" -> "vector"
      [] outcome = "empty" -> "None"
      [] outcome = "error" -> IF backend = "openai" THEN "raise" ELSE "None"

Abs(x) == IF x < 0 THEN -x ELSE x

\* the stored point nearest to the query vector (ties: the lower id)
Nearest(ps, q) ==
    CHOOSE p \in ps : \A r \in ps :
        \/ Abs(p.text - q) < Abs(r.text - q)
        \/ Abs(p.text - q) = Abs(r.text - q) /\ p.id <= r.id

RECURSIVE Ranked(_, _, _)
Ranked(ps, q, limit) ==
    IF limit = 0 \/ ps = {} THEN <<>>
    ELSE LET p == Nearest(ps, q)
         IN  <<[text |-> p.text, score |-> 0 - Abs(p.text - q)]>>
                \o Ranked(ps \ {p}, q, limit - 1)

\* QDrantProvider.search_by_vector: [] when the collection does not exist or
\* the store's query raises, else the limit nearest points
SearchByVector(st, q, limit, store_ok) ==
    IF ~st.exists \/ ~store_ok THEN <<>> ELSE Ranked(st.points, q, limit)

\* search_by_vector 256-267: the store's query was made and raised
StoreFailed(embedding, st, store_ok) ==
    embedding = "vector" /\ st.exists /\ ~store_ok

\* NLPController.search_vector_db_collection (the search route's controller)
SearchSync(embedding, st, q, limit, store_ok) ==
    IF embedding = "raise"
    THEN [result |-> "raised", docs |-> <<>>, searched |-> FALSE]
    ELSE IF embedding = "None"
    THEN [result |-> "False", docs |-> <<>>, searched |-> FALSE]
    ELSE LET results == SearchByVector(st, q, limit, store_ok)
         IN  IF Len(results) = 0
             THEN [result |-> "False", docs |-> <<>>, searched |-> TRUE]
             ELSE [result |-> "list", docs |-> results, searched |-> TRUE]

\* NLPAsyncController.search_vector_db_collection
SearchAsync(embedding, st, q, limit, store_ok) ==
    IF embedding = "raise"
    THEN [result |-> "raised", docs |-> <<>>, searched |-> FALSE]
    ELSE IF embedding = "None"
    THEN [result |-> "list", docs |-> <<>>, searched |-> FALSE]
    ELSE [result |-> "list",
          docs |-> SearchByVector(st, q, limit, store_ok),
          searched |-> TRUE]

\* str.lower() on the role names the enums hold
Lower(role) ==
    CASE role = "SYSTEM" -> "system"
      [] role = "USER" -> "user"
      [] role = "CHATBOT" -> "chatbot"
      [] OTHER -> role

\* LLMEnums.py: OpenAIEnums / CohereEnums
SystemRole(backend) == IF backend = "openai" THEN "system" ELSE "SYSTEM"

\* construct_prompt: the message built from a text and a role
ConstructPrompt(backend, text, role) ==
    IF backend = "openai"
    THEN [role |-> role, text |-> text]
    ELSE [role |-> IF Lower(role) = "user" THEN "USER" ELSE "CHATBOT",
          text |-> text]

\* generate_text: the chat history list after the call.  OpenAIProvider
\* appends the user prompt to the list it was given; CohereProvider only
\* passes the list on.
HistoryAfterGenerate(backend, history) ==
    IF backend = "openai"
    THEN Append(history, ConstructPrompt(backend, "full_prompt", "user"))
    ELSE history

\* what a generate_text call meets: the outcomes of the vendor call, or a
\* provider whose client or generation model is not set
GenerateOutcomes == VendorOutcomes \cup {"unset"}

\* generate_text: "text", "None" or "raise".  Both providers return None
\* when the client or the model is not set.  OpenAIProvider makes the vendor
\* call outside any try block; CohereProvider catches and returns None.
GenerateText(backend, outcome) ==
    CASE outcome = "unset" -> "None"
      [] outcome = "ok" -> "text"
      [] outcome = "empty" -> "None"
      [] outcome = "error" -> IF backend = "openai" THEN "raise" ELSE "None"

\* answer without its test of the retrieval
ShortCircuit_never(docs) == FALSE

\* asnwer_rag_question 114: if not retrieved_documents: return the triple
ShortCircuit(docs) == Len(docs) = 0

\* ------------------------------------------------------ TemplateParser
\* What the locale directories hold for one template group: whether the
\* preferred and the default language have the group's file, and what the
\* file is: a module whose key is a string.Template ("template"), a module
\* whose key is a plain str ("string"), a module without the key
\* ("no_key"), a module whose key is neither ("not_a_template"), or a file
\* that does not import ("import_error").
Modules == {"template", "string", "no_key", "not_a_template", "import_error"}

Locales == [in_preferred : BOOLEAN, in_default : BOOLEAN, module : Modules]

\* the rag group of the repository: its keys are string.Template objects
RagLocales == {loc \in Locales : loc.module = "template"}

\* no rendering: the value of a get that returned None or raised
NoRendering == [part |-> "none", doc_num |-> 0, text |-> 0, processed |-> FALSE]

\* Template.substitute(vars): the template of the key with its variables
Substitute(key, tvars) ==
    [part |-> key, doc_num |-> tvars.doc_num, text |-> tvars.text,
     processed |-> tvars.processed]

\* TemplateParser._resolve_targeted_language: the preferred language when
\* its locale has the group's file, else the default language when its
\* locale has it, else None
ResolveTargetedLanguage(loc) ==
    IF loc.in_preferred THEN "preferred"
    ELSE IF loc.in_default THEN "default"
    ELSE "None"

\* TemplateParser.get: kind is "value", "None", or the exception raised
TemplateGet(loc, group_given, key_given, key, tvars) ==
    LET lang == ResolveTargetedLanguage(loc)
        fail(k) == [kind |-> k, lang |-> lang, value |-> NoRendering]
    IN  IF ~group_given \/ ~key_given
        THEN [kind |-> "None", lang |-> "None", value |-> NoRendering]
        ELSE IF lang = "None" THEN fail("None")
        ELSE IF loc.module = "import_error" THEN fail("ImportError")
        ELSE IF loc.module = "no_key" THEN fail("TemplateNotFound")
        ELSE IF loc.module = "template"
        THEN [kind |-> "value", lang |-> lang, value |-> Substitute(key, tvars)]
        ELSE IF loc.module = "string"
        THEN [kind |-> "value", lang |-> lang,
              value |-> [NoRendering EXCEPT !.part = key]]
        ELSE fail("InvalidTemplate")

\* --------------------------------------------------------- prompt assembly
\* process_text: the text of a document goes through the generation
\* client's truncation; the query of the footer does not
ProcessText(t) == [text |-> t, processed |-> TRUE]

\* the variables of the document template for the document enumerate
\* numbers i (0-based): {"doc_num": idx + 1, "chunk_text": process_text(..)}
DocVars(i, doc) ==
    [doc_num |-> i + 1, text |-> ProcessText(doc.text).text,
     processed |-> ProcessText(doc.text).processed]

\* the variables of the footer template: {"query": query}
FooterVars(q) == [doc_num |-> 0, text |-> q, processed |-> FALSE]

\* the orders in which n concurrent tasks can complete
Perms(n) == {f \in [1..n -> 1..n] : \A i, j \in 1..n : f[i] = f[j] => i = j}

\* the tasks as they complete: the j-th to finish is task order[j]
Completions(tasks, order) ==
    [j \in 1..Len(tasks) |-> [index |-> order[j], result |-> tasks[order[j]]]]

\* the results in the order the tasks happened to finish
Gather_asCompleted(done) == [j \in 1..Len(done) |-> done[j].result]

\* asyncio.gather: the result of each task at the position of the task
Gather(done) ==
    [i \in 1..Len(done) |->
        (CHOOSE c \in Range(done) : c.index = i).result]

\* a separator of str.join
Sep(s) == [NoRendering EXCEPT !.part = s]

RECURSIVE Join(_, _)
\* sep.join(parts) for a list of texts, each a sequence of pieces
Join(sep, parts) ==
    IF Len(parts) = 0 THEN <<>>
    ELSE IF Len(parts) = 1 THEN parts[1]
    ELSE parts[1] \o <<Sep(sep)>> \o Join(sep, Tail(parts))

\* a separator is whitespace, a rendering is not
IsBlank(part) == part.part \in {"\n", "\n\n"}

RECURSIVE StripParts(_)
\* str.strip() on a text made of renderings and separators
StripParts(text) ==
    IF Len(text) = 0 THEN text
    ELSE IF IsBlank(Head(text)) THEN StripParts(Tail(text))
    ELSE IF IsBlank(text[Len(text)])
    THEN StripParts(SubSeq(text, 1, Len(text) - 1))
    ELSE text

\* process_text on a prompt: text[:default_input_max_tokens].strip()
ProcessPromptText(text) ==
    StripParts(SubSeq(text, 1, Min(Len(text), default_input_max_tokens)))

\* generate_text: the message that goes to the vendor for a prompt.
\* OpenAIProvider sends construct_prompt(prompt, user), whose content is
\* process_text(prompt); CohereProvider sends process_text(prompt).
MessageSent(backend, prompt, outcome) ==
    IF outcome = "unset" THEN None ELSE Some(ProcessPromptText(prompt))

\* asnwer_rag_question 123-157: the document templates are rendered as
\* concurrent tasks and gathered, the None results are dropped, the rest is
\* joined by newlines, and the footer rendered with the query follows after
\* a blank line.  The result is "raise" when a get raised or when the
\* footer is None (str.join of a None raises TypeError).
FullPrompt(loc, docs, q, order) ==
    LET system_prompt == TemplateGet(loc, TRUE, TRUE, "system_prompt",
                                     FooterVars(0))
        tasks == [i \in 1..Len(docs) |->
                    TemplateGet(loc, TRUE, TRUE, "document_prompt",
                                DocVars(i - 1, docs[i]))]
        doc_prompts_list == Gather(Completions(tasks, order))
        filtered_prompts == SelectSeq(doc_prompts_list,
                                      LAMBDA p : p.kind # "None")
        documents_prompts ==
            IF Len(filtered_prompts) = 0
            THEN <<Sep("No relevant context found.")>>
            ELSE Join("\n", [i \in 1..Len(filtered_prompts) |->
                                <<filtered_prompts[i].value>>])
        footer_prompt == TemplateGet(loc, TRUE, TRUE, "footer_prompt",
                                     FooterVars(q))
        raised(r) == r.kind \notin {"value", "None"}
    IN  IF raised(system_prompt) \/ (\E i \in 1..Len(tasks) : raised(tasks[i]))
           \/ raised(footer_prompt) \/ footer_prompt.kind = "None"
        THEN [kind |-> "raise", text |-> <<>>]
        ELSE [kind |-> "value",
              text |-> Join("\n\n", <<documents_prompts,
                                      <<footer_prompt.value>>>>)]

\* the search route: NLPController.search_vector_db_collection
Search(q, limit, e_out, store_ok) ==
    /\ pc = "idle" /\ last_call.op = "none"
    /\ LET emb == EmbedText(embedding_backend, e_out)
           r == SearchSync(emb, Store, q, limit, store_ok)
       IN last_call' = [NoCall EXCEPT !.op = "search", !.query = q,
                           !.embedding = emb, !.result = r.result,
                           !.docs = r.docs, !.searched = r.searched,
                           !.store_failed = StoreFailed(emb, Store, store_ok)]
    /\ UNCHANGED <<cfgvars, othervars, libvars, storevars, idxvars, embvars, insvars, histvars>>

\* NLPAsyncController.search_vector_db_collection called on its own
SearchA(q, limit, e_out, store_ok) ==
    /\ pc = "idle" /\ last_call.op = "none"
    /\ LET emb == EmbedText(embedding_backend, e_out)
           r == SearchAsync(emb, Store, q, limit, store_ok)
       IN last_call' = [NoCall EXCEPT !.op = "search_async", !.query = q,
                           !.embedding = emb, !.result = r.result,
                           !.docs = r.docs, !.searched = r.searched,
                           !.store_failed = StoreFailed(emb, Store, store_ok)]
    /\ UNCHANGED <<cfgvars, othervars, libvars, storevars, idxvars, embvars, insvars, histvars>>

\* NLPAsyncController.asnwer_rag_question
Answer(q, limit, e_out, store_ok, g_out, loc) ==
    /\ pc = "idle" /\ last_call.op = "none"
    /\ LET emb == EmbedText(embedding_backend, e_out)
           r == SearchAsync(emb, Store, q, limit, store_ok)
           base == [NoCall EXCEPT !.op = "answer", !.query = q,
                       !.embedding = emb, !.docs = r.docs,
                       !.searched = r.searched,
                       !.store_failed = StoreFailed(emb, Store, store_ok)]
           history == <<ConstructPrompt(generation_backend, "system_prompt",
                                        SystemRole(generation_backend))>>
           ans == GenerateText(generation_backend, g_out)
       IN \E order \in Perms(Len(r.docs)) :
          last_call' =
              IF r.result = "raised" THEN [base EXCEPT !.result = "raised"]
              ELSE IF ShortCircuit(r.docs)
              THEN [base EXCEPT !.result = "returned"]
              ELSE LET prompt == FullPrompt(loc, r.docs, q, order) IN
                   IF prompt.kind = "raise"
                   THEN [base EXCEPT !.result = "raised"]
                   ELSE IF ans = "raise"
                   THEN [base EXCEPT !.result = "raised", !.generated = 1]
                   ELSE [base EXCEPT !.result = "returned", !.generated = 1,
                            !.answer = ans,
                            !.full_prompt = Some(prompt.text),
                            !.message = MessageSent(generation_backend,
                                                    prompt.text, g_out),
                            !.chat_history =
                                Some(HistoryAfterGenerate(generation_backend,
                                                          history))]
    /\ UNCHANGED <<cfgvars, othervars, libvars, storevars, idxvars, embvars, insvars, histvars>>

\* the outcome of the search / answer request went back to its caller
Deliver ==
    /\ last_call.op # "none"
    /\ last_call' = NoCall
    /\ UNCHANGED <<cfgvars, othervars, libvars, storevars, idxvars, embvars, insvars, histvars>>

Queries == 1..MaxChunks

QueryNext ==
    \/ \E q \in Queries, limit \in 1..MaxLimit, e \in VendorOutcomes,
          ok \in BOOLEAN : Search(q, limit, e, ok)
    \/ \E q \in Queries, limit \in 1..MaxLimit, e \in VendorOutcomes,
          ok \in BOOLEAN : SearchA(q, limit, e, ok)
    \/ \E q \in Queries, limit \in 1..MaxLimit, e \in VendorOutcomes,
          ok \in BOOLEAN, g \in GenerateOutcomes, loc \in RagLocales :
              Answer(q, limit, e, ok, g, loc)
    \/ Deliver

\* what a run that has answered did: a complete rebuild ("reset") or a
\* complete append ("append") when it reported success with every chunk of
\* the project uploaded, else "other"
RunKind ==
    IF response = "success" /\ written = nchunks
    THEN IF do_reset THEN "reset" ELSE "append"
    ELSE "other"

\* the response went out: the request and its locals are gone
Finish ==
    /\ pc = "done"
    /\ pc' = "idle" /\ do_reset' = FALSE /\ page_no' = 1 /\ idx' = 0
    /\ inserted_items_count' = 0 /\ page_chunks' = <<>> /\ chunks_ids' = <<>>
    /\ is_inserted' = FALSE /\ response' = "none"
    /\ emb_i' = 0 /\ attempt' = 0 /\ all_embeddings' = <<>> /\ vectors' = None
    /\ last_error' = "none"
    /\ ins_i' = 0 /\ successful_batches' = 0 /\ insert_result' = FALSE
    /\ fetched' = <<>> /\ assigned' = <<>> /\ embed_batch_calls' = 0
    /\ insert_calls' = 0 /\ written' = 0
    /\ coll_at_page' = [exists |-> FALSE, points |-> {}]
    /\ embed_failed_page' = 0 /\ insert_false_page' = 0
    /\ completed' = <<RunKind>>
    /\ UNCHANGED <<cfgvars, othervars, libvars, storevars, runs, qvars>>

IndexNext ==
    \/ \E reset \in BOOLEAN : StartIndex(reset)
    \/ FetchPage
    \/ EmbedOk \/ EmbedRetry \/ EmbedFail \/ EmbedReturn
    \/ AfterEmbed
    \/ CreateStep \/ CreateFails
    \/ UploadOk \/ UploadFail \/ InsertReturn
    \/ RouteCheck
    \/ Finish

Next == IndexNext \/ QueryNext

Spec == Init /\ [][Next]_vars

\* a request that entered the page loop keeps running: the handler is one
\* coroutine and every loop in it is bounded
RunStep ==
    \/ FetchPage
    \/ EmbedOk \/ EmbedRetry \/ EmbedFail \/ EmbedReturn
    \/ AfterEmbed
    \/ CreateStep \/ CreateFails
    \/ UploadOk \/ UploadFail \/ InsertReturn
    \/ RouteCheck

FairSpec == Spec /\ WF_vars(RunStep)

\* ===================================================== calls on the stores
\* The controller methods and provider calls below act on vdb, the vector
\* store with the collection of every project; each is one call, taken as
\* a whole.

\* QDrantProvider.create_collection: what the call returns: True when it
\* created the collection, False when the collection was there or the
\* store's create call raised
CreateCollectionReturns(st, reset, store_ok) ==
    LET s1 == IF reset THEN DeleteCollection(st) ELSE st
    IN  ~s1.exists /\ store_ok

\* QDrantProvider.create_collection: the collection after the call
CreateCollectionStore(st, reset, store_ok) ==
    LET s1 == IF reset THEN DeleteCollection(st) ELSE st
    IN  IF ~s1.exists /\ ~store_ok THEN s1 ELSE CreateCollection(st, reset)

RECURSIVE InsertBatches(_, _, _, _, _)
\* insert_many 193-224: the sub-batches from record i on; outcomes[b] tells
\* whether the upload of the b-th sub-batch succeeds
InsertBatches(ps, b_vectors, b_ids, i, outcomes) ==
    IF i >= Len(b_vectors) THEN [points |-> ps, ok_batches |-> 0]
    ELSE LET recs == BatchRecords(
                        Slice(b_vectors, i, i + insert_batch_size),
                        Slice(b_ids, i, i + insert_batch_size))
             ok == outcomes[(i \div insert_batch_size) + 1]
             rest == InsertBatches(IF ok THEN Upsert(ps, recs) ELSE ps,
                                   b_vectors, b_ids,
                                   i + insert_batch_size, outcomes)
         IN  [points |-> rest.points,
              ok_batches |-> rest.ok_batches + (IF ok THEN 1 ELSE 0)]

\* the number of sub-batches of n records
TotalBatches(n) == (n + insert_batch_size - 1) \div insert_batch_size

\* QDrantProvider.insert_many as one call
InsertMany(st, i_vectors, i_ids, outcomes) ==
    IF ~st.exists \/ Len(i_vectors) # Len(i_ids)
    THEN [store |-> st, result |-> FALSE]
    ELSE LET r == InsertBatches(st.points, i_vectors, i_ids, 0, outcomes)
         IN  [store |-> [exists |-> TRUE, points |-> r.points],
              result |-> InsertManyResult(r.ok_batches,
                                          TotalBatches(Len(i_vectors)))]

\* the outcomes the uploads of n records can have
UploadOutcomes(n) == [1..TotalBatches(n) -> BOOLEAN]

\* NLPController.index_into_vector_db as one call on a collection
IndexIntoVectorDB(st, texts, ids, reset, store_ok, outcomes) ==
    LET i_vectors == [k \in 1..Len(texts) |-> Embed(texts[k])]
        created == CreateCollectionStore(st, reset, store_ok)
        ins == InsertMany(created, i_vectors, ids, outcomes)
    IN  [store |-> ins.store, result |-> ControllerResult(ins.result)]

LibFrame ==
    UNCHANGED <<cfgvars, storevars, idxvars, embvars, insvars, histvars,
                qvars, othervars>>

\* ProjectModel.get_project_or_create_one: the id does not pass the
\* validation of ProjectSchema and the route ends there
ProjectRejected(raw) ==
    /\ ~ProjectIdValid(raw)
    /\ call' = [op |-> "rejected", project |-> raw]
    /\ UNCHANGED vdb
    /\ LibFrame

\* index_into_vector_db of the chunks 1..n of project raw, ids 0..n-1
IndexProject(raw, reset, n, store_ok, outcomes) ==
    /\ ProjectIdValid(raw)
    /\ outcomes \in UploadOutcomes(n)
    /\ LET name == create_collection_name(raw)
           r == IndexIntoVectorDB(vdb[name], [k \in 1..n |-> k],
                                  ChunkIds(0, n), reset, store_ok, outcomes)
       IN /\ vdb' = [vdb EXCEPT ![name] = r.store]
          /\ call' = [op |-> "index", project |-> raw, collection |-> name,
                      before |-> vdb]
    /\ LibFrame

\* search_vector_db_collection of project raw
SearchProject(raw, q, limit) ==
    /\ ProjectIdValid(raw)
    /\ LET name == create_collection_name(raw)
       IN call' = [op |-> "search", project |-> raw, collection |-> name,
                   before |-> vdb,
                   docs |-> SearchByVector(vdb[name], q, limit, TRUE)]
    /\ UNCHANGED vdb
    /\ LibFrame

\* get_vector_collection_info of project raw
InfoProject(raw) ==
    /\ ProjectIdValid(raw)
    /\ LET name == create_collection_name(raw)
       IN call' = [op |-> "info", project |-> raw, collection |-> name,
                   before |-> vdb,
                   count |-> IF vdb[name].exists
                             THEN Cardinality(vdb[name].points) ELSE -1]
    /\ UNCHANGED vdb
    /\ LibFrame

\* reset_vector_db_collection of project raw
ResetProject(raw) ==
    /\ ProjectIdValid(raw)
    /\ LET name == create_collection_name(raw)
       IN /\ vdb' = [vdb EXCEPT ![name] = DeleteCollection(vdb[name])]
          /\ call' = [op |-> "reset", project |-> raw, collection |-> name,
                      before |-> vdb]
    /\ LibFrame

ControllerOps == {"index", "search", "info", "reset"}

\* the provider's create_collection called on a collection name
CallCreateCollection(name, reset, store_ok) ==
    /\ vdb' = [vdb EXCEPT ![name] =
                  CreateCollectionStore(vdb[name], reset, store_ok)]
    /\ call' = [op |-> "create_collection", collection |-> name,
                reset |-> reset, store_ok |-> store_ok, before |-> vdb,
                created |-> CreateCollectionReturns(vdb[name], reset,
                                                    store_ok)]
    /\ LibFrame

\* TemplateParser.get called for a group and a key
GetTemplate(loc, group_given, key_given) ==
    /\ LET r == TemplateGet(loc, group_given, key_given, "key", FooterVars(0))
       IN call' = [op |-> "template_get", loc |-> loc,
                   group_given |-> group_given, key_given |-> key_given,
                   kind |-> r.kind, lang |-> r.lang]
    /\ UNCHANGED vdb
    /\ LibFrame

\* ------------------------------------------------------ provider factories
\* the names a factory may be asked for
LLMNames == Backends \cup {"anthropic"}

VectorBackends == {"QDRANT", "AsyncQDRANT", "MILVUS", "AsyncMILVUS"}

VectorNames == VectorBackends \cup {"PGVECTOR"}

\* DistanceMetricEnums
SupportedMetrics == {"cosine", "euclidean", "dot"}

\* values of VECTOR_DB_DISTANCE_METRIC: "" stands for an unset field
Metrics == {"cosine", "manhattan", ""}

\* LLMProviderFactory.create: the factory checks the name only; without an
\* API key it is the vendor client's constructor that accepts or raises
LLMFactoryCreate(name, api_key_set, client_accepts) ==
    IF name \in Backends
    THEN IF api_key_set \/ client_accepts THEN "provider" ELSE "raise"
    ELSE "raise"

\* the constructors of the vector store providers: QDrantAsyncProvider
\* falls back to COSINE for a metric it does not know, the others raise
VectorProviderInit(name, metric) ==
    IF name = "AsyncQDRANT" THEN "provider"
    ELSE IF metric \in SupportedMetrics THEN "provider" ELSE "raise"

\* VectorDBProviderFactory.create
VectorDBFactoryCreate(name, db_name_set, metric) ==
    IF ~db_name_set THEN "raise"
    ELSE IF metric = "" THEN "raise"
    ELSE IF name \in VectorBackends THEN VectorProviderInit(name, metric)
    ELSE "raise"

CreateLLMProvider(name, api_key_set, client_accepts) ==
    /\ call' = [op |-> "llm_factory", name |-> name,
                api_key_set |-> api_key_set,
                result |-> LLMFactoryCreate(name, api_key_set, client_accepts)]
    /\ UNCHANGED vdb
    /\ LibFrame

CreateVectorDBProvider(name, db_name_set, metric) ==
    /\ call' = [op |-> "vectordb_factory", name |-> name,
                db_name_set |-> db_name_set, metric |-> metric,
                result |-> VectorDBFactoryCreate(name, db_name_set, metric)]
    /\ UNCHANGED vdb
    /\ LibFrame

\* ======================================================= calls on the LLM
\* The calls below are made on an LLM provider one after the other; call
\* records the last of them.

\* what a caller may pass as document_type: the values of DocumentTypeEnum
\* (plain strings), its members, or nothing
DocumentTypes == {"query", "document", "DocumentTypeEnum.QUERY",
                  "DocumentTypeEnum.DOCUMENT", "None"}

\* CohereProvider.embed_text 128-133 / embed_batch 165-168: the input type
\* is "search_query" when document_type equals the member
\* DocumentTypeEnum.QUERY, which no string does
CohereInputType(document_type) ==
    IF document_type = "DocumentTypeEnum.QUERY"
    THEN "search_query" ELSE "search_document"

\* the input type sent to the vendor; OpenAIProvider ignores document_type
InputType(backend, document_type) ==
    IF backend = "cohere" THEN CohereInputType(document_type) ELSE "none"

\* embed_text / embed_batch called with a document type
EmbedCall(backend, op, by, document_type) ==
    /\ call' = [op |-> op, by |-> by, backend |-> backend,
                document_type |-> document_type,
                input_type |-> InputType(backend, document_type)]
    /\ UNCHANGED vdb
    /\ LibFrame

\* search_vector_db_collection: embed_text(text, DocumentTypeEnum.QUERY.value)
SearchEmbedsQuery(backend) ==
    EmbedCall(backend, "embed_text", "search", "query")

\* index_into_vector_db: embed_batch(texts, DocumentTypeEnum.DOCUMENT.value)
IndexEmbedsPage(backend) ==
    EmbedCall(backend, "embed_batch", "index", "document")

\* any other caller of the provider
ProviderEmbed(backend, op, document_type) ==
    EmbedCall(backend, op, "other", document_type)

\* the logical roles of a chat message
LogicalRoles == {"system", "user", "assistant"}

\* LLMEnums.py 12-20: the value of the provider's enum for a logical role
VendorRole(backend, logical) ==
    IF backend = "openai" THEN logical
    ELSE CASE logical = "system" -> "SYSTEM"
           [] logical = "user" -> "USER"
           [] logical = "assistant" -> "CHATBOT"

\* construct_prompt called with the provider's enum value of a role
ConstructPromptCall(backend, by, logical) ==
    /\ call' = [op |-> "construct_prompt", by |-> by, backend |-> backend,
                logical |-> logical,
                message |-> ConstructPrompt(backend, "prompt",
                                            VendorRole(backend, logical))]
    /\ UNCHANGED vdb
    /\ LibFrame

\* asnwer_rag_question 149-155: the system prompt of the chat history
AnswerSystemPrompt(backend) == ConstructPromptCall(backend, "answer", "system")

\* any other caller of construct_prompt
ProviderConstructPrompt(backend, logical) ==
    ConstructPromptCall(backend, "other", logical)

\* a process that serves several projects: no index request is followed
\* page by page, the calls above are made one after the other
LibInit ==
    /\ Init
    /\ embedding_backend = "openai" /\ generation_backend = "openai"
    /\ nchunks = 0 /\ ~coll_exists

\* the names of the collections of the projects that pass the validation
ProjectNames == {create_collection_name(P) : P \in {R \in RawIds : ProjectIdValid(R)}}

\* the calls on the vector store
StoreNext ==
    \/ \E raw \in RawIds : ProjectRejected(raw)
    \/ \E raw \in RawIds, reset \in BOOLEAN, n \in 1..MaxTexts,
          ok \in BOOLEAN, outcomes \in UNION {UploadOutcomes(k) : k \in 1..MaxTexts} :
              IndexProject(raw, reset, n, ok, outcomes)
    \/ \E raw \in RawIds, q \in 1..MaxTexts, limit \in 1..MaxLimit :
          SearchProject(raw, q, limit)
    \/ \E raw \in RawIds : InfoProject(raw)
    \/ \E raw \in RawIds : ResetProject(raw)
    \/ \E name \in ProjectNames, reset \in BOOLEAN, ok \in BOOLEAN :
          CallCreateCollection(name, reset, ok)

StoreSpec == LibInit /\ [][StoreNext]_vars

\* the calls on the template parser, on the factories and on the LLM
\* providers
ConfigNext ==
    \/ \E b \in Backends : SearchEmbedsQuery(b)
    \/ \E b \in Backends : IndexEmbedsPage(b)
    \/ \E b \in Backends, op \in {"embed_text", "embed_batch"},
          dt \in DocumentTypes : ProviderEmbed(b, op, dt)
    \/ \E b \in Backends : AnswerSystemPrompt(b)
    \/ \E b \in Backends, r \in LogicalRoles : ProviderConstructPrompt(b, r)
    \/ \E loc \in Locales, g \in BOOLEAN, k \in BOOLEAN : GetTemplate(loc, g, k)
    \/ \E name \in LLMNames, key \in BOOLEAN, acc \in BOOLEAN :
          CreateLLMProvider(name, key, acc)
    \/ \E name \in VectorNames, db \in BOOLEAN, metric \in Metrics :
          CreateVectorDBProvider(name, db, metric)

ConfigSpec == LibInit /\ [][ConfigNext]_vars

\* ============================================ a second index request
\* index_project has no guard: a second request for the same project is
\* served by the same event loop.  The handler gives the loop away only
\* where it awaits, which is the page fetch: the controller call of a page
\* (embed, create, insert) is synchronous.  The second request therefore
\* moves a whole page at a time, and only while the first is not inside a
\* controller call.
AtAwait == pc \in {"idle", "fetch", "done"}

\* routes/nlp.py 21-60: the second request enters its page loop
OtherStart(reset) ==
    /\ AtAwait
    /\ other.pc = "idle" /\ other.served < MaxOther
    /\ other' = [pc |-> "loop", do_reset |-> reset, page_no |-> 1,
                 idx |-> 0, served |-> other.served + 1]
    /\ UNCHANGED <<cfgvars, storevars, idxvars, embvars, insvars, histvars,
                   qvars, libvars>>

\* routes/nlp.py 63-105: one turn of the second request's page loop: the
\* page is fetched; an empty page ends the request, a failed embedding ends
\* it with the error, else the page goes into the collection
OtherPage(embed_ok, store_ok, outcomes) ==
    /\ AtAwait
    /\ other.pc = "loop"
    /\ LET page == GetChunksPage(other.page_no)
           r == IndexIntoVectorDB(Store, page,
                                  ChunkIds(other.idx, Len(page)),
                                  other.do_reset, store_ok, outcomes)
       IN  IF LoopEnds(page)
           THEN /\ other' = [other EXCEPT !.pc = "idle"]
                /\ UNCHANGED storevars
           ELSE /\ outcomes \in UploadOutcomes(Len(page))
                /\ IF ~embed_ok
                   THEN /\ other' = [other EXCEPT !.pc = "idle"]
                        /\ UNCHANGED storevars
                   ELSE /\ coll_exists' = r.store.exists
                        /\ points' = r.store.points
                        /\ other' =
                             IF RouteAborts(r.result)
                             THEN [other EXCEPT !.pc = "idle"]
                             ELSE [other EXCEPT
                                     !.page_no = NextPageNo(other.page_no, page),
                                     !.idx = other.idx + Len(page)]
    /\ UNCHANGED <<cfgvars, idxvars, embvars, insvars, histvars, qvars,
                   libvars>>

OtherNext ==
    \/ \E reset \in BOOLEAN : OtherStart(reset)
    \/ \E e_ok \in BOOLEAN, s_ok \in BOOLEAN,
          outcomes \in UNION {UploadOutcomes(k) : k \in 0..PageSize} :
              OtherPage(e_ok, s_ok, outcomes)

\* two index requests for one project on one event loop
ConcNext == IndexNext \/ OtherNext

ConcSpec == Init /\ [][ConcNext]_vars

\* ================================================================ claims
\* ================================================ the async insert_many
\* NLPAsyncController.index_into_vector_db on the pages of one project:
\* create_collection, then insert_many dispatches one upload per sub-batch
\* and awaits asyncio.gather over them.  call holds the insert_many call in
\* hand: results[b] is "pending" while the upload of sub-batch b is in
\* flight, then "ok" or "exc".

\* the texts of one page: up to three sub-batches
MaxAsyncTexts == 2 * insert_batch_size + 1

\* the collection of the project that is indexed
AsyncName == create_collection_name(<<"a">>)

\* a gather that returns with the first upload that completes
GatherDone_first(results) ==
    \E b \in DOMAIN results : results[b] # "pending"

\* asyncio.gather(*tasks, return_exceptions=True): done when every task is
GatherDone(results) ==
    \A b \in DOMAIN results : results[b] # "pending"

\* the caller is at a point where it can call index_into_vector_db for
\* its next page
AsyncCallerReady ==
    \/ call.op = "none"
    \/ call.op = "insert_many" /\ call.returned /\ call.page < MaxAsyncPages

\* index_into_vector_db 58-73: create_collection, then insert_many checks
\* the collection and the lists and dispatches its uploads
AsyncIndexPage(n, reset, store_ok) ==
    /\ AsyncCallerReady
    /\ LET page == IF call.op = "none" THEN 1 ELSE call.page + 1
           first == IF call.op = "none" THEN 0 ELSE call.first + call.n
           created == CreateCollectionStore(vdb[AsyncName], reset, store_ok)
       IN /\ vdb' = [vdb EXCEPT ![AsyncName] = created]
          /\ call' = [op |-> "insert_many", page |-> page, first |-> first,
                      n |-> n,
                      results |-> IF created.exists
                                  THEN [b \in 1..TotalBatches(n) |-> "pending"]
                                  ELSE <<>>,
                      returned |-> ~created.exists, result |-> FALSE]
    /\ LibFrame

\* the records of sub-batch b of the page in hand
AsyncBatchRecords(b) ==
    LET ids == ChunkIds(call.first, call.n)
        i == (b - 1) * insert_batch_size
    IN  BatchRecords(
            [k \in 1..Len(Slice(ids, i, i + insert_batch_size)) |->
                Embed(Slice(ids, i, i + insert_batch_size)[k] + 1)],
            Slice(ids, i, i + insert_batch_size))

\* one of the dispatched uploads completes, in any order: it has written
\* its records or raised
AsyncUploadDone(b, ok) ==
    /\ call.op = "insert_many"
    /\ b \in DOMAIN call.results /\ call.results[b] = "pending"
    /\ call' = [call EXCEPT !.results[b] = IF ok THEN "ok" ELSE "exc"]
    /\ vdb' = IF ok /\ vdb[AsyncName].exists
              THEN [vdb EXCEPT ![AsyncName].points =
                                  Upsert(@, AsyncBatchRecords(b))]
              ELSE vdb
    /\ LibFrame

\* insert_many 238-247: gather has returned; the successes are counted
AsyncGatherReturns ==
    /\ call.op = "insert_many" /\ ~call.returned
    /\ GatherDone(call.results)
    /\ call' = [call EXCEPT
                  !.returned = TRUE,
                  !.result = InsertManyResult(
                      Cardinality({b \in DOMAIN call.results :
                                      call.results[b] = "ok"}),
                      Len(call.results))]
    /\ UNCHANGED vdb
    /\ LibFrame

AsyncNext ==
    \/ \E n \in 1..MaxAsyncTexts, reset \in BOOLEAN, ok \in BOOLEAN :
          AsyncIndexPage(n, reset, ok)
    \/ \E b \in 1..TotalBatches(MaxAsyncTexts), ok \in BOOLEAN :
          AsyncUploadDone(b, ok)
    \/ AsyncGatherReturns

AsyncSpec == LibInit /\ [][AsyncNext]_vars

\* ============================================ the template module cache
\* TemplateParser.get runs _import_template_module in a worker thread
\* (asyncio.to_thread); several gets may be in their threads at once, and
\* a thread can be descheduled between any two of its steps.  call holds
\* the parser's _module_cache, the interpreter's table of imported modules,
\* the number of times each template source was executed, and each
\* thread's position.

\* the (language, group) pairs of the rag group: the file of the preferred
\* language and the file of the default language
Pairs == {"preferred/rag", "default/rag"}

Workers == 1..TemplateThreads

IdleWorker == [pc |-> "idle", pair |-> "none", saw_cached |-> FALSE,
               saw_loaded |-> FALSE, served |-> "none"]

CacheInit ==
    [op |-> "template_cache", cache |-> {}, sys_modules |-> {},
     loads |-> [p \in Pairs |-> 0],
     workers |-> [w \in Workers |-> IdleWorker]]

\* a parser that never finds a pair in its cache
CacheHit_never(pair, cache) == FALSE

\* _import_template_module 129: (language, group) in self._module_cache
CacheHit(pair, cache) == pair \in cache

CacheFrame == UNCHANGED vdb /\ LibFrame

\* the parser is constructed (main.py lifespan): the cache is empty
ParserCreated ==
    /\ call.op = "none"
    /\ call' = CacheInit
    /\ CacheFrame

\* _import_template_module 129-130: the thread looks the pair up and
\* returns the cached module when it is there
CacheLookup(w, pair) ==
    /\ call.op = "template_cache" /\ call.workers[w].pc = "idle"
    /\ call' = [call EXCEPT !.workers[w] =
                  IF CacheHit(pair, call.cache)
                  THEN [pc |-> "done", pair |-> pair,
                        saw_cached |-> pair \in call.cache,
                        saw_loaded |-> call.loads[pair] >= 1,
                        served |-> "cache"]
                  ELSE [pc |-> "import", pair |-> pair,
                        saw_cached |-> pair \in call.cache,
                        saw_loaded |-> call.loads[pair] >= 1,
                        served |-> "none"]]
    /\ CacheFrame

\* _import_template_module 141: importlib.import_module.  Under the import
\* lock a module that is in the interpreter's table is returned as it is;
\* else its source is executed, and the module enters the table unless the
\* execution raises ImportError (line 145-149: logged and raised again)
ImportModule(w, source_ok) ==
    /\ call.op = "template_cache" /\ call.workers[w].pc = "import"
    /\ LET pair == call.workers[w].pair IN
       IF pair \in call.sys_modules
       THEN call' = [call EXCEPT !.workers[w].pc = "store"]
       ELSE IF source_ok
       THEN call' = [call EXCEPT !.workers[w].pc = "store",
                                 !.sys_modules = @ \cup {pair},
                                 !.loads[pair] = @ + 1]
       ELSE call' = [call EXCEPT !.workers[w].pc = "done",
                                 !.workers[w].served = "raise"]
    /\ CacheFrame

\* _import_template_module 143-144: the module is put in the cache and
\* returned
CacheStore(w) ==
    /\ call.op = "template_cache" /\ call.workers[w].pc = "store"
    /\ call' = [call EXCEPT !.cache = @ \cup {call.workers[w].pair},
                            !.workers[w].pc = "done",
                            !.workers[w].served = "import"]
    /\ CacheFrame

\* get 69-93: the thread's result went back to the coroutine
WorkerReturns(w) ==
    /\ call.op = "template_cache" /\ call.workers[w].pc = "done"
    /\ call' = [call EXCEPT !.workers[w] = IdleWorker]
    /\ CacheFrame

CacheNext ==
    \/ ParserCreated
    \/ \E w \in Workers, pair \in Pairs : CacheLookup(w, pair)
    \/ \E w \in Workers, ok \in BOOLEAN : ImportModule(w, ok)
    \/ \E w \in Workers : CacheStore(w)
    \/ \E w \in Workers : WorkerReturns(w)

CacheSpec == LibInit /\ [][CacheNext]_vars

\* ================================================ the connection handle
\* The vector providers keep their client in self.client: None after
\* __init__ and after disconnect(), a client after connect().  Every
\* operation calls _ensure_connected() as its first statement, outside any
\* try block.  call holds the provider's handle, the last operation, what
\* it raised, how many calls it made on the store's client, and the store
\* as it was when the operation was invoked.

\* the operations of VectorDBInterface that use the client
ProviderOps == {"is_collection_exists", "list_all_collections",
                "get_collection_info", "delete_collection",
                "create_collection", "insert_one", "insert_many",
                "search_by_vector"}

\* a provider whose operations do not look at the handle
EnsureConnected_skip(client) == TRUE

\* _ensure_connected: passes unless self.client is None
EnsureConnected(client) == client # "None"

\* the effect of one operation on the collection once _ensure_connected
\* has passed: the collection afterwards and the calls made on the client
\* (is_collection_exists is one call; delete_collection, insert_one,
\* insert_many and search_by_vector check the collection first;
\* create_collection deletes on do_reset, checks, and creates if absent)
OperationBody(op, st, n, reset, store_ok, outcomes) ==
    LET aligned == [k \in 1..n |-> Embed(k)]
        deleted == IF reset THEN DeleteCollection(st) ELSE st
        del_calls(s) == 1 + (IF s.exists THEN 1 ELSE 0)
    IN  CASE op = "delete_collection" ->
               [store |-> DeleteCollection(st), store_calls |-> del_calls(st)]
          [] op = "create_collection" ->
               [store |-> CreateCollectionStore(st, reset, store_ok),
                store_calls |-> (IF reset THEN del_calls(st) ELSE 0) + 1
                                + (IF deleted.exists THEN 0 ELSE 1)]
          [] op = "insert_one" ->
               [store |-> IF st.exists /\ store_ok
                          THEN [st EXCEPT !.points =
                                   Upsert(@, BatchRecords(<<Embed(n)>>,
                                                          <<n - 1>>))]
                          ELSE st,
                store_calls |-> del_calls(st)]
          [] op = "insert_many" ->
               [store |-> InsertMany(st, aligned, ChunkIds(0, n),
                                     outcomes).store,
                store_calls |-> 1 + (IF st.exists THEN TotalBatches(n)
                                                  ELSE 0)]
          [] op = "search_by_vector" ->
               [store |-> st, store_calls |-> del_calls(st)]
          [] OTHER -> [store |-> st, store_calls |-> 1]

\* VectorDBProviderFactory.create returns a provider: __init__ leaves
\* self.client = None
ProviderCreated ==
    /\ call.op = "none"
    /\ call' = [op |-> "__init__", client |-> "None", raised |-> "none",
                store_calls |-> 0, before |-> vdb]
    /\ UNCHANGED vdb
    /\ LibFrame

\* connect(): self.client = QdrantClient(path=self.db_path)
Connect ==
    /\ call.op \in ProviderOps \cup {"__init__", "connect", "disconnect"}
    /\ call' = [op |-> "connect", client |-> "client", raised |-> "none",
                store_calls |-> 0, before |-> vdb]
    /\ UNCHANGED vdb
    /\ LibFrame

\* disconnect(): self.client = None; the collections stay on the disk
Disconnect ==
    /\ call.op \in ProviderOps \cup {"__init__", "connect", "disconnect"}
    /\ call' = [op |-> "disconnect", client |-> "None", raised |-> "none",
                store_calls |-> 0, before |-> vdb]
    /\ UNCHANGED vdb
    /\ LibFrame

\* one operation of the provider on the collection: _ensure_connected
\* raises RuntimeError before anything else, or the body runs
ProviderOperation(op, n, reset, store_ok, outcomes) ==
    /\ call.op \in ProviderOps \cup {"__init__", "connect", "disconnect"}
    /\ LET body == OperationBody(op, vdb[AsyncName], n, reset, store_ok,
                                 outcomes)
       IN IF EnsureConnected(call.client)
          THEN /\ vdb' = [vdb EXCEPT ![AsyncName] = body.store]
               /\ call' = [op |-> op, client |-> call.client,
                           raised |-> "none",
                           store_calls |-> body.store_calls, before |-> vdb]
          ELSE /\ UNCHANGED vdb
               /\ call' = [op |-> op, client |-> call.client,
                           raised |-> "RuntimeError", store_calls |-> 0,
                           before |-> vdb]
    /\ LibFrame

ConnNext ==
    \/ ProviderCreated
    \/ Connect
    \/ Disconnect
    \/ \E op \in ProviderOps, n \in 1..MaxTexts, reset \in BOOLEAN,
          ok \in BOOLEAN, outcomes \in UNION {UploadOutcomes(k) : k \in 1..MaxTexts} :
         /\ outcomes \in UploadOutcomes(n)
         /\ ProviderOperation(op, n, reset, ok, outcomes)

ConnSpec == LibInit /\ [][ConnNext]_vars

\* the points an index of chunks 1..n holds: chunk i under id i - 1
AllPoints(n) == {[id |-> i - 1, text |-> Embed(i)] : i \in 1..n}

RECURSIVE ChunksBefore(_)
\* the number of chunks in pages 1..k-1 of the chunk store
ChunksBefore(k) ==
    IF k <= 1 THEN 0 ELSE ChunksBefore(k - 1) + Len(GetChunksPage(k - 1))

RunSucceeded == pc = "done" /\ response = "success"

\* C1: after an index run with do_reset=true that reported success and
\* uploaded every chunk it was given, the collection holds exactly the
\* points of the N chunks of the run and nothing older.
\* (Violated by the code: create_collection(do_reset) runs once per page.)
C1_ResetRunLeavesExactlyTheRun ==
    (RunSucceeded /\ do_reset /\ written = nchunks)
        => points = AllPoints(nchunks)

\* C2: within one run the pages are fetched in the order 1, 2, 3, ...; the
\* ids of the k-th non-empty page are the contiguous range that starts at
\* the number of chunks in pages 1..k-1; no id is assigned twice, and a run
\* that ends with success has assigned exactly 0..N-1.
C2_PagesInOrderIdsContiguous ==
    /\ \A i \in 1..Len(fetched) : fetched[i] = i
    /\ \A k \in 1..Len(assigned) :
          assigned[k] = [j \in 1..Len(GetChunksPage(k)) |->
                            ChunksBefore(k) + j - 1]
    /\ \A k1, k2 \in 1..Len(assigned) :
          \A j1 \in 1..Len(assigned[k1]), j2 \in 1..Len(assigned[k2]) :
              assigned[k1][j1] = assigned[k2][j2] => (k1 = k2 /\ j1 = j2)
    /\ RunSucceeded =>
          UNION {Range(assigned[k]) : k \in 1..Len(assigned)}
              = 0..(nchunks - 1)

\* a run over two non-empty pages ended with success
C2_Witness == RunSucceeded /\ Len(assigned) = 2 /\ Len(fetched) = 3

C5_InsertFailureAbortsRun ==
    insert_false_page # 0 =>
        /\ pc \in {"check", "done"}
        /\ pc = "done" => response = "error"
        /\ Len(fetched) = insert_false_page
        /\ inserted_items_count = ChunksBefore(insert_false_page)

\* C6: a run that reports success reports as inserted_items_count the
\* number of points it uploaded to the vector store.
\* (Violated by the code: a page counts in full whatever its uploads did.)
C6_CountIsWhatWasWritten ==
    RunSucceeded => inserted_items_count = written

\* C7: embed_batch returns None or one vector per text of the page, in the
\* order of the texts; never the vectors of a part of the page.
C7_EmbedBatchAllOrNothing ==
    pc = "embedded" =>
        \/ vectors.none
        \/ vectors.list =
              [k \in 1..Len(page_chunks) |-> Embed(page_chunks[k])]

\* embed_batch returned None after a sub-batch of the page was embedded
C7_Witness ==
    /\ pc = "embedded" /\ vectors.none
    /\ Len(all_embeddings) > 0 /\ Len(all_embeddings) < Len(page_chunks)

\* C8: when embed_text gives no vector for the query (it returns None or
\* the vendor call fails), search returns the empty list: it does not
\* raise, returns no other value, and does not call search_by_vector.
\* (Violated by the code: NLPController returns False, and
\* OpenAIProvider.embed_text lets the vendor's exception through.)
C8_FailedEmbeddingGivesEmptyList ==
    (last_call.op \in {"search", "search_async"}
        /\ last_call.embedding # "vector")
      => /\ last_call.result = "list"
         /\ last_call.docs = <<>>
         /\ ~last_call.searched

\* C9: when the retrieval of answer returns no documents, answer returns
\* (None, None, None) and generate_text is not called.
C9_EmptyRetrievalShortCircuits ==
    (last_call.op = "answer" /\ last_call.result = "returned"
        /\ Len(last_call.docs) = 0)
      => /\ last_call.answer = "None"
         /\ last_call.full_prompt.none
         /\ last_call.chat_history.none
         /\ last_call.generated = 0

\* answer returned after a search of the vector store that found nothing
C9_Witness ==
    /\ last_call.op = "answer" /\ last_call.result = "returned"
    /\ last_call.searched /\ Len(last_call.docs) = 0

\* C10: when the retrieval is not empty, the chat history answer returns is
\* the one message construct_prompt built from the system prompt, for
\* every generation provider.
\* (Violated by the code: OpenAIProvider.generate_text appends the user
\* prompt to the list it is given.)
C10_HistoryIsTheSystemPrompt ==
    (last_call.op = "answer" /\ last_call.result = "returned"
        /\ Len(last_call.docs) > 0)
      => /\ ~last_call.chat_history.none
         /\ last_call.chat_history.list =
              <<ConstructPrompt(generation_backend, "system_prompt",
                                SystemRole(generation_backend))>>

\* C11: for a retrieval of n >= 1 documents the full prompt answer builds
\* is the n document renderings in the order of the retrieval, the i-th
\* with doc_num = i and the processed text of the i-th document, joined by
\* newlines, then a blank line, then the footer rendered with the raw
\* query: whatever the order in which the rendering tasks complete, no
\* document is moved, dropped or repeated.
C11_FullPromptInRankOrder ==
    (last_call.op = "answer" /\ last_call.result = "returned"
        /\ Len(last_call.docs) > 0)
      => LET n == Len(last_call.docs)
             fp == last_call.full_prompt.list
         IN  /\ ~last_call.full_prompt.none
             /\ Len(fp) = 2 * n + 1
             /\ \A i \in 1..n :
                   fp[2 * i - 1] =
                       [part |-> "document_prompt", doc_num |-> i,
                        text |-> last_call.docs[i].text, processed |-> TRUE]
             /\ \A i \in 1..(n - 1) : fp[2 * i] = Sep("\n")
             /\ fp[2 * n] = Sep("\n\n")
             /\ fp[2 * n + 1] =
                   [part |-> "footer_prompt", doc_num |-> 0,
                    text |-> last_call.query, processed |-> FALSE]

\* answer built the prompt of a retrieval of two different documents
C11_Witness ==
    /\ last_call.op = "answer" /\ last_call.result = "returned"
    /\ Len(last_call.docs) = 2
    /\ last_call.docs[1].text # last_call.docs[2].text
    /\ ~last_call.full_prompt.none

C13_ProjectsDoNotShareCollections ==
    LET Projects == {P \in RawIds : ProjectIdValid(P)} IN
    /\ \A P1, P2 \in Projects :
          P1 # P2 => create_collection_name(P1) # create_collection_name(P2)
    /\ call.op \in ControllerOps =>
          \A P2 \in Projects \ {call.project} :
              /\ call.collection # create_collection_name(P2)
              /\ vdb[create_collection_name(P2)]
                    = call.before[create_collection_name(P2)]

\* one project was reset while the collection of another project held
\* points
C13_Witness ==
    /\ call.op = "reset" /\ call.before[call.collection].exists
    /\ \E P2 \in RawIds :
          /\ ProjectIdValid(P2) /\ P2 # call.project
          /\ vdb[create_collection_name(P2)].points # {}

C17_UnresolvedGroupFails ==
    (call.op = "template_get" /\ call.group_given /\ call.key_given) =>
        /\ call.loc.in_preferred => call.lang = "preferred"
        /\ (~call.loc.in_preferred /\ call.loc.in_default)
              => call.lang = "default"
        /\ (~call.loc.in_preferred /\ ~call.loc.in_default)
              => call.kind = "TemplateNotFound"

\* C18: a factory returns a provider only for a supported name with every
\* required configuration field present: for the vector store a database
\* name and a supported distance metric.
\* (Violated by the code: QDrantAsyncProvider takes COSINE for a metric it
\* does not know.)
C18_FactoriesFailFast ==
    /\ (call.op = "llm_factory" /\ call.result = "provider")
          => call.name \in Backends
    /\ (call.op = "vectordb_factory" /\ call.result = "provider")
          => /\ call.name \in VectorBackends
             /\ call.db_name_set
             /\ call.metric \in SupportedMetrics

\* C15: at most one index run of the project is in progress: while a run
\* is between its first page fetch and its response, no other request for
\* the project is inside its page loop.
\* (Violated by the code: index_project has no single-flight guard.)
C15_SingleFlightPerProject ==
    ~(pc \notin {"idle", "done"} /\ Len(fetched) >= 1 /\ other.pc = "loop")

\* the second of two complete do_reset=false runs in a row has answered
SecondAppendDone ==
    pc = "done" /\ RunKind = "append" /\ completed = <<"append">>

C19_RoundTripAfterReset ==
    (completed = <<"reset">> /\ pc = "idle"
        /\ last_call.op \in {"search", "search_async"}
        /\ last_call.searched /\ Len(last_call.docs) > 0
        /\ last_call.query \in 1..nchunks)
      => last_call.docs[1].text = last_call.query

\* insert_many has returned to the route for the page in hand
InsertManyReturned == pc = "check" /\ ~EmbeddingMissing(vectors)

\* C20 (as stated): insert_many returns True only if every sub-batch
\* upload of the call succeeded.
\* (Violated by the code: it returns False only when no sub-batch
\* succeeded.)
C20_TrueOnlyIfAllSucceeded ==
    (InsertManyReturned /\ insert_result)
      => successful_batches = TotalBatches(Len(page_chunks))

\* C20 (amended): insert_many returns True exactly when at least one
\* sub-batch upload of the call succeeded; it returns False when the call
\* was rejected at entry or every sub-batch failed.
C20_TrueIffSomeBatchSucceeded ==
    InsertManyReturned => (insert_result <=> successful_batches >= 1)

\* insert_many returned True for a page of which one sub-batch failed
C20_Witness ==
    /\ InsertManyReturned /\ insert_result
    /\ successful_batches >= 1
    /\ successful_batches < TotalBatches(Len(page_chunks))

\* C21: a search whose vector-store query fails reaches the caller as a
\* failure, not as the outcome of a search without matches; a search that
\* succeeds without matches is reported as an empty list.
\* (Violated by the code: search_by_vector returns [] when the query
\* raises, and NLPController turns every empty result into False.)
C21_StoreFailureIsNotEmptySuccess ==
    last_call.op \in {"search", "search_async"}
      => /\ (last_call.searched /\ coll_exists /\ ~last_call.store_failed
                /\ Len(last_call.docs) = 0)
              => last_call.result = "list"
         /\ last_call.store_failed
              => ~(last_call.result \in {"list", "False"}
                      /\ Len(last_call.docs) = 0)

\* C22: search embeds the query with the query purpose and indexing embeds
\* the chunks with the document purpose: CohereProvider sends
\* "search_query" for the embed_text call of search and "search_document"
\* for the embed_batch call of indexing.
\* (Violated by the code: the controllers pass DocumentTypeEnum.QUERY.value,
\* a string, and the provider compares it with the enum member.)
C22_PurposeReachesTheVendor ==
    (call.op \in {"embed_text", "embed_batch"} /\ call.backend = "cohere")
      => /\ call.by = "search" => call.input_type = "search_query"
         /\ call.by = "index" => call.input_type = "search_document"

\* C23: construct_prompt gives a message the vendor's role for its logical
\* role: system -> SYSTEM, user -> USER, assistant -> CHATBOT for Cohere,
\* the role itself for OpenAI; so does the system prompt answer builds.
\* (Violated by the code: CohereProvider.construct_prompt knows USER and
\* CHATBOT only.)
C23_RoleIsMappedToTheVendor ==
    call.op = "construct_prompt"
      => call.message.role = VendorRole(call.backend, call.logical)

\* C24: generate_text returns None and never raises, whether the provider
\* is not configured, the vendor call fails or the vendor returns no text;
\* answer then returns the triple with its prompt and chat history.
\* (Violated by the code: OpenAIProvider.generate_text makes the vendor
\* call outside any try block.)
C24_GenerateNeverRaises ==
    (last_call.op = "answer" /\ last_call.generated = 1)
      => /\ last_call.result = "returned"
         /\ ~last_call.full_prompt.none
         /\ ~last_call.chat_history.none

\* C30: the message generate_text sends to the vendor is the full prompt
\* answer returns, footer with the query included, however many documents
\* were retrieved.
\* (Violated by the code: process_text cuts the prompt at
\* default_input_max_tokens, and the footer is its end.)
C30_QueryIsSent ==
    (last_call.op = "answer" /\ last_call.result = "returned"
        /\ ~last_call.message.none)
      => /\ last_call.message.list = last_call.full_prompt.list
         /\ \E i \in 1..Len(last_call.message.list) :
               last_call.message.list[i].part = "footer_prompt"

\* C25: in one index run the collection is created / reset once, before
\* anything is inserted, and a later page never drops or recreates it:
\* what the collection held when a later page was fetched is still there
\* while that page is processed.
\* (Violated by the code: index_into_vector_db calls
\* create_collection(do_reset) for every page.)
C25_CollectionSetUpOnce ==
    pc # "idle"
      => /\ insert_calls <= 1
         /\ written >= 1 => insert_calls >= 1
         /\ (Len(fetched) >= 2 /\ coll_at_page.exists)
              => (coll_exists /\ coll_at_page.points \subseteq points)

\* a sub-batch of the page in hand failed for good
EmbedBatchFailed ==
    pc = "embedded" /\ Len(fetched) >= 1 /\ embed_failed_page = Len(fetched)

\* C26: embed_batch makes at most max_retries vendor attempts per
\* sub-batch and tries again only after a rate-limit error; any other
\* error, or a rate-limit error on the last attempt, ends the call with
\* failure at once: the failed sub-batch is not passed, and only the
\* sub-batches before it were embedded.
C26_BoundedRetryFailFast ==
    /\ attempt <= max_retries - 1
    /\ (pc = "embed" /\ attempt >= 1) => last_error = "rate_limit"
    /\ EmbedBatchFailed
         => /\ vectors.none
            /\ \/ last_error = "error"
               \/ last_error = "rate_limit" /\ attempt = max_retries - 1
            /\ emb_i < Len(page_chunks)
            /\ Len(all_embeddings) = emb_i

\* the second sub-batch of a page hit the rate limit on its last attempt
C26_Witness ==
    /\ EmbedBatchFailed /\ emb_i > 0
    /\ last_error = "rate_limit" /\ attempt = max_retries - 1

\* C27: the async insert_many returns only when every upload it dispatched
\* has completed, with success or with an exception, in whatever order the
\* uploads complete: no upload of a page is in flight when the caller goes
\* on to the next page.
C27_GatherJoinsEveryUpload ==
    (call.op = "insert_many" /\ call.returned)
      => /\ \A b \in DOMAIN call.results : call.results[b] # "pending"
         /\ call.result
              <=> \E b \in DOMAIN call.results : call.results[b] = "ok"

\* the second page's insert_many returned after three uploads of which
\* one raised
C27_Witness ==
    /\ call.op = "insert_many" /\ call.returned /\ call.page = 2
    /\ Len(call.results) = 3
    /\ call.results[1] = "ok" /\ call.results[2] = "exc"

\* C28 (as stated): the source of a (language, group) pair is loaded at
\* most once, and every get that starts after the first successful load
\* is served from the parser's cache, also while gets for the group run
\* concurrently in worker threads.
\* (Violated by the code: the module enters the cache only after the
\* import has returned; a get that looks the pair up in between misses
\* the cache and calls import_module itself.)
C28_LaterGetsServedFromCache ==
    call.op = "template_cache"
      => /\ \A p \in Pairs : call.loads[p] <= 1
         /\ \A w \in Workers :
               (call.workers[w].saw_loaded /\ call.workers[w].pc = "done")
                  => call.workers[w].served = "cache"

\* C28 (amended): the source of a (language, group) pair is executed at
\* most once, and a get that finds the pair in the parser's cache is
\* served from it without an import, also while other gets for the group
\* are in their worker threads; a get that misses the cache while the
\* first load is under way imports again and is given the module already
\* loaded.
C28_TemplateLoadedOnce ==
    call.op = "template_cache"
      => /\ \A p \in Pairs : call.loads[p] <= 1
         /\ \A p \in call.cache : p \in call.sys_modules /\ call.loads[p] = 1
         /\ \A w \in Workers :
               call.workers[w].saw_cached
                  => call.workers[w].served = "cache"

\* two gets for one pair both missed the cache: one has imported and
\* stored the module, the other is served by its own import
C28_Witness ==
    /\ call.op = "template_cache"
    /\ call.workers[1].pair = "preferred/rag"
    /\ call.workers[2].pair = "preferred/rag"
    /\ call.workers[1].served = "import"
    /\ call.workers[2].served = "import"
    /\ call.loads["preferred/rag"] = 1

\* C29: every vector-store operation invoked while the provider is not
\* connected (before connect() or after disconnect()) fails with the
\* not-connected error and makes no call on the underlying store, whose
\* collections and points are as they were.
C29_NotConnectedFailsWithoutCall ==
    (call.op \in ProviderOps /\ call.client = "None")
      => /\ call.raised = "RuntimeError"
         /\ call.store_calls = 0
         /\ vdb = call.before

\* an operation invoked after disconnect() on a store that holds a
\* collection with points
C29_Witness ==
    /\ call.op = "insert_many" /\ call.client = "None"
    /\ call.raised = "RuntimeError"
    /\ vdb[AsyncName].exists /\ vdb[AsyncName].points # {}

====
